---- MODULE Spec2Model ----
(***************************************************************************)
(* Model of the NWS forecast processing pipeline of                        *)
(* scripts/processing/process_forecast_data.py: the corruption detector,   *)
(* the warning extractor, the period parser, the relative-day mapper and   *)
(* the orchestrator (analyze_forecast_file, then process_forecast_file).   *)
(*                                                                         *)
(* Text is modelled structurally.  A period name is the sequence of its    *)
(* upper-case words (<<"TUE", "NIGHT">> is the text "TUE NIGHT"); a period *)
(* content is a sequence of tokens: white space ("sp", "nl"), the wave     *)
(* sub-headers ("WaveDetail", "Waves") and text chunks of known length.    *)
(* A body is its leading prose, its warning lines and its header sections. *)
(***************************************************************************)
EXTENDS Integers, Sequences, FiniteSets, TLC

VARIABLES
    \* ---- ForecastPeriodConverter.convert_forecast_periods (one call) ----
    processed_periods,   \* list of (period_name, period_content)
    forecast_time,       \* the parsed issuance datetime
    i,                   \* loop index of "for i, (...) in enumerate(...)", 1-based
    current_day_offset,  \* the running day offset
    converted_periods,   \* the lines built so far
    mpc,                 \* "idle" | "loop" | "done"
    \* ---- NWSForecastProcessor.process ----
    forecast_blocks,     \* content.split('$$'), each block stripped
    pc,                  \* "idle" | "analyze" | "start" | "process" | "write" | "done"
    idx,                 \* index of the next block of the running loop
    corrupted_forecasts, \* self.corrupted_forecasts
    corrupted_timestamps,\* the exclusion set of process_forecast_file
    converted_blocks,    \* the output list
    processed_count,
    error_count,
    output_file,         \* what is written to the output file
    result,              \* the tuple process_forecast_file returns
    \* ---- history (not program state) ----
    verdicts,            \* block index -> has_corruption, where the detector ran
    convert_calls,       \* indices of the blocks convert_forecast_periods ran on
    origin               \* origin[k] = index of the input block of converted_blocks[k]

mvars == <<processed_periods, forecast_time, i, current_day_offset,
           converted_periods, mpc>>
pvars == <<forecast_blocks, pc, idx, corrupted_forecasts, corrupted_timestamps,
           converted_blocks, processed_count, error_count, output_file, result,
           verdicts, convert_calls, origin>>
vars == <<mvars, pvars>>

None == [none |-> TRUE]

\* ------------------------------------------------------------------------
\* Bounds of the model
\* ------------------------------------------------------------------------
MaxPeriods == 3
MaxBlocks == 3

\* ------------------------------------------------------------------------
\* Calendar: datetime.date, timedelta(days=k), date.weekday()
\* ------------------------------------------------------------------------
IsLeap(y) == (y % 4 = 0 /\ y % 100 # 0) \/ y % 400 = 0

DaysInMonth(y, m) ==
    IF m = 2 THEN (IF IsLeap(y) THEN 29 ELSE 28)
    ELSE IF m \in {4, 6, 9, 11} THEN 30 ELSE 31

NextDay(d) ==
    IF d.day < DaysInMonth(d.year, d.month)
    THEN [d EXCEPT !.day = d.day + 1]
    ELSE IF d.month < 12
         THEN [year |-> d.year, month |-> d.month + 1, day |-> 1]
         ELSE [year |-> d.year + 1, month |-> 1, day |-> 1]

RECURSIVE AddDays(_, _)
AddDays(d, k) == IF k = 0 THEN d ELSE AddDays(NextDay(d), k - 1)

RECURSIVE DaysBeforeMonth(_, _)
DaysBeforeMonth(y, m) ==
    IF m = 1 THEN 0 ELSE DaysBeforeMonth(y, m - 1) + DaysInMonth(y, m - 1)

RECURSIVE DaysBeforeYear(_)
DaysBeforeYear(y) ==
    IF y <= 2024 THEN 0
    ELSE DaysBeforeYear(y - 1) + (IF IsLeap(y - 1) THEN 366 ELSE 365)

\* days since 1 January 2024
Ordinal(d) == DaysBeforeYear(d.year) + DaysBeforeMonth(d.year, d.month) + d.day - 1

\* date.weekday(): Monday is 0; 1 January 2024 is a Monday
Weekday(d) == Ordinal(d) % 7

DateLeq(a, b) ==
    \/ a.year < b.year
    \/ a.year = b.year /\ a.month < b.month
    \/ a.year = b.year /\ a.month = b.month /\ a.day <= b.day

\* ------------------------------------------------------------------------
\* Timestamps: the text YYYY-MM-DDTHH:MM:SS-08:00, by its numeric fields
\* ------------------------------------------------------------------------
NoTimestamp == [none |-> TRUE]

Stamp(y, m, d, h) == [year |-> y, month |-> m, day |-> d, hour |-> h]

\* datetime.fromisoformat raises ValueError on out-of-range fields -> None
parse_forecast_timestamp(ts) ==
    IF /\ ts.month \in 1..12
       /\ ts.day \in 1..DaysInMonth(ts.year, ts.month)
       /\ ts.hour \in 0..23
    THEN [date |-> [year |-> ts.year, month |-> ts.month, day |-> ts.day],
          hour |-> ts.hour]
    ELSE None

\* ------------------------------------------------------------------------
\* Period names
\* ------------------------------------------------------------------------
TODAY == <<"TODAY">>
TONIGHT == <<"TONIGHT">>
REST_OF_TODAY == <<"REST", "OF", "TODAY">>
REST_OF_TONIGHT == <<"REST", "OF", "TONIGHT">>
THIS_AFTERNOON == <<"THIS", "AFTERNOON">>

weekday_to_num ==
    [w \in {"MON", "TUE", "WED", "THU", "FRI", "SAT", "SUN"} |->
        CASE w = "MON" -> 0 [] w = "TUE" -> 1 [] w = "WED" -> 2 [] w = "THU" -> 3
          [] w = "FRI" -> 4 [] w = "SAT" -> 5 [] w = "SUN" -> 6]

WordLen(w) ==
    CASE w \in DOMAIN weekday_to_num -> 3
      [] w = "OF" -> 2
      [] w \in {"REST", "THIS", "WEEK", "GALE"} -> 4
      [] w \in {"TODAY", "NIGHT", "WAVES", "SMALL", "CRAFT"} -> 5
      [] w = "MONDAY" -> 6
      [] w \in {"TONIGHT", "THROUGH", "WARNING"} -> 7
      [] w \in {"AFTERNOON", "WEDNESDAY"} -> 9
      [] OTHER -> 1

\* period_name.endswith(' NIGHT')
EndsWithNight(name) == Len(name) >= 2 /\ name[Len(name)] = "NIGHT"

\* ------------------------------------------------------------------------
\* Period contents and their cleanup (lines 229-231)
\* ------------------------------------------------------------------------
IsSpace(t) == t \in {"sp", "nl"}

\* str.strip()
RECURSIVE LStrip(_)
LStrip(s) == IF s # <<>> /\ IsSpace(Head(s)) THEN LStrip(Tail(s)) ELSE s

RECURSIVE RStrip(_)
RStrip(s) ==
    IF s # <<>> /\ IsSpace(s[Len(s)]) THEN RStrip(SubSeq(s, 1, Len(s) - 1)) ELSE s

Strip(s) == RStrip(LStrip(s))

\* re.sub(r'\s+', ' ', s)
RECURSIVE CollapseSpaces(_)
CollapseSpaces(s) ==
    IF s = <<>> THEN <<>>
    ELSE IF IsSpace(Head(s))
         THEN <<"sp">> \o CollapseSpaces(LStrip(Tail(s)))
         ELSE <<Head(s)>> \o CollapseSpaces(Tail(s))

\* s.replace('Wave Detail:', 'Waves:')
ReplaceWaveDetail(s) ==
    [k \in 1..Len(s) |-> IF s[k] = "WaveDetail" THEN "Waves" ELSE s[k]]

\* mutant: the content is not stripped before the white space is collapsed
collapsed_content_unstripped(period_content) ==
    ReplaceWaveDetail(CollapseSpaces(period_content))

collapsed_content(period_content) ==
    ReplaceWaveDetail(CollapseSpaces(Strip(period_content)))

\* ------------------------------------------------------------------------
\* The relative-day mapper: loop body of convert_forecast_periods
\* ------------------------------------------------------------------------
IsNightName(period_name) ==
    \/ period_name = REST_OF_TONIGHT
    \/ period_name = TONIGHT
    \/ /\ period_name \notin {REST_OF_TODAY, THIS_AFTERNOON, TODAY}
       /\ EndsWithNight(period_name)

\* mutant: every period is labelled as a day period
relative_label_always_day(period_name, offset) == [offset |-> offset, kind |-> "DAY"]

\* mutant: only TONIGHT and REST OF TONIGHT are labelled as nights
relative_label_weekday_night_as_day(period_name, offset) ==
    [offset |-> offset,
     kind |-> IF period_name \in {TONIGHT, REST_OF_TONIGHT} THEN "NIGHT" ELSE "DAY"]

\* the f'D{current_day_offset}_DAY' / f'D{current_day_offset}_NIGHT' of the branch taken
relative_label(period_name, offset) ==
    [offset |-> offset,
     kind |-> IF IsNightName(period_name) THEN "NIGHT" ELSE "DAY"]

\* mutant: no following period ever moves a regular day period's offset
NextIsAnotherDay_never(next_period_name) == FALSE

\* mutant: the check for a following "... NIGHT" period is missing
NextIsAnotherDay_no_night_check(next_period_name) ==
    next_period_name \notin {TONIGHT, TODAY, REST_OF_TONIGHT, THIS_AFTERNOON}

\* lines 263-264: the next period does not keep a regular day period's offset
NextIsAnotherDay(next_period_name) ==
    /\ ~EndsWithNight(next_period_name)
    /\ next_period_name \notin {TONIGHT, TODAY, REST_OF_TONIGHT, THIS_AFTERNOON}

\* mutant: a regular day period never moves the offset (no skipped nights)
next_day_offset_nights_only(periods, k, offset) ==
    IF IsNightName(periods[k].name) THEN offset + 1 ELSE offset

\* mutant: a weekday night leaves the offset where it is
next_day_offset_weekday_night_stays(periods, k, offset) ==
    LET period_name == periods[k].name IN
    IF period_name \in {TONIGHT, REST_OF_TONIGHT} THEN offset + 1
    ELSE IF period_name \in {REST_OF_TODAY, THIS_AFTERNOON, TODAY} THEN offset
    ELSE IF EndsWithNight(period_name) THEN offset
    ELSE IF k < Len(periods) /\ NextIsAnotherDay(periods[k + 1].name)
         THEN offset + 1
         ELSE offset

\* mutant: a night period moves the offset on by two days
next_day_offset_night_skips_a_day(periods, k, offset) ==
    LET period_name == periods[k].name IN
    IF IsNightName(period_name) THEN offset + 2
    ELSE IF /\ period_name \notin {REST_OF_TODAY, THIS_AFTERNOON, TODAY}
            /\ k < Len(periods)
            /\ NextIsAnotherDay(periods[k + 1].name)
         THEN offset + 1
         ELSE offset

\* mutant: the offset stops at D4, as in simulate_sequential_fix
next_day_offset_capped(periods, k, offset) ==
    LET period_name == periods[k].name
        moved == IF IsNightName(period_name) THEN offset + 1
                 ELSE IF /\ period_name \notin {REST_OF_TODAY, THIS_AFTERNOON, TODAY}
                         /\ k < Len(periods)
                         /\ NextIsAnotherDay(periods[k + 1].name)
                      THEN offset + 1
                      ELSE offset
    IN IF moved > 4 THEN 4 ELSE moved

\* mutant: THIS AFTERNOON moves the offset on like a night period
next_day_offset_afternoon_advances(periods, k, offset) ==
    LET period_name == periods[k].name IN
    IF period_name = THIS_AFTERNOON \/ IsNightName(period_name) THEN offset + 1
    ELSE IF /\ period_name \notin {REST_OF_TODAY, TODAY}
            /\ k < Len(periods)
            /\ NextIsAnotherDay(periods[k + 1].name)
         THEN offset + 1
         ELSE offset

\* mutant: TODAY sets the offset back to the issuance day
next_day_offset_today_resets(periods, k, offset) ==
    LET period_name == periods[k].name IN
    IF period_name = TODAY THEN 0
    ELSE IF IsNightName(period_name) THEN offset + 1
    ELSE IF /\ period_name \notin {REST_OF_TODAY, THIS_AFTERNOON}
            /\ k < Len(periods)
            /\ NextIsAnotherDay(periods[k + 1].name)
         THEN offset + 1
         ELSE offset

\* current_day_offset after the iteration for periods[k] (k is 1-based)
next_day_offset(periods, k, offset) ==
    LET period_name == periods[k].name IN
    IF period_name = REST_OF_TODAY THEN offset
    ELSE IF period_name = REST_OF_TONIGHT THEN offset + 1
    ELSE IF period_name = THIS_AFTERNOON THEN offset
    ELSE IF period_name = TONIGHT THEN offset + 1
    ELSE IF period_name = TODAY THEN offset
    ELSE IF EndsWithNight(period_name) THEN offset + 1
    ELSE IF k < Len(periods) /\ NextIsAnotherDay(periods[k + 1].name)
         THEN offset + 1
         ELSE offset

\* lines 225-227
target_date(forecast_date, offset) ==
    IF offset > 0 THEN AddDays(forecast_date, offset) ELSE forecast_date

\* mutant: the date is computed after the offset was incremented
converted_line_late_date(periods, k, offset, forecast_date) ==
    [label |-> relative_label(periods[k].name, offset),
     date |-> target_date(forecast_date, next_day_offset(periods, k, offset)),
     content |-> collapsed_content(periods[k].content)]

\* line 267: f'{relative_label} ({target_date}) {collapsed_content}'
converted_line(periods, k, offset, forecast_date) ==
    [label |-> relative_label(periods[k].name, offset),
     date |-> target_date(forecast_date, offset),
     content |-> collapsed_content(periods[k].content)]

\* mutant: an issuance after noon starts one day on
initial_day_offset_evening(issue_hour) == IF issue_hour >= 12 THEN 1 ELSE 0

\* mutant: an early-morning issuance starts one day on
initial_day_offset_early(issue_hour) == IF issue_hour < 6 THEN 1 ELSE 0

\* line 201: 0 whatever the issuance hour
initial_day_offset(issue_hour) == IF issue_hour < 6 THEN 0 ELSE 0

\* the whole loop, lines 223-267, from period k on
RECURSIVE ConvertFrom(_, _, _, _)
ConvertFrom(periods, k, offset, forecast_date) ==
    IF k > Len(periods) THEN <<>>
    ELSE <<converted_line(periods, k, offset, forecast_date)>>
         \o ConvertFrom(periods, k + 1, next_day_offset(periods, k, offset),
                        forecast_date)

\* convert_forecast_periods's loop applied to a whole period list
converted_lines(periods, time) ==
    ConvertFrom(periods, 1, initial_day_offset(time.hour), time.date)

\* ------------------------------------------------------------------------
\* Forecast text: bodies, header sections, lengths
\* ------------------------------------------------------------------------
\* len() of a token: a word of capitals, a punctuation or white-space
\* character, or a chunk of forecast text
TokLen(t) ==
    CASE t \in {"sp", "nl", "."} -> 1
      [] t = "2 ft." -> 5
      [] t = "Waves" -> 6
      [] t \in {"N wind 5 kt.", "WaveDetail", "No forecast."} -> 12
      [] t = "SW wind 10 kt." -> 14
      [] t = "N wind 5 to 10 kt." -> 18
      [] t = "text of 1000 chars" -> 1000
      [] t = "text of 1001 chars" -> 1001
      [] OTHER -> WordLen(t)

RECURSIVE TextLen(_)
TextLen(s) == IF s = <<>> THEN 0 ELSE TokLen(Head(s)) + TextLen(Tail(s))

RECURSIVE JoinWords(_)
JoinWords(name) ==
    IF Len(name) <= 1 THEN name
    ELSE <<Head(name), "sp">> \o JoinWords(Tail(name))

\* the text of a header line: '.', the name, the dots
HeaderText(sec) == <<".">> \o JoinWords(sec.name) \o [k \in 1..sec.dots |-> "."]

Section(name, dots, content) == [name |-> name, dots |-> dots, content |-> content]

Body(prose, warnings, sections, marks) ==
    [prose |-> prose, warnings |-> warnings, sections |-> sections, marks |-> marks]

EmptyBody == Body(<<>>, <<>>, <<>>, <<>>)

\* "if forecast_content:" after .strip()
BodyIsEmpty(body) ==
    /\ Strip(body.prose) = <<>>
    /\ body.warnings = <<>>
    /\ body.sections = <<>>
    /\ body.marks = <<>>

\* [A-Z]{3,7}(?:\s+NIGHT)?
StandardName(name) ==
    /\ Len(name) \in {1, 2}
    /\ WordLen(name[1]) \in 3..7
    /\ Len(name) = 2 => name[2] = "NIGHT"

\* (REST\s+OF\s+[A-Z]+)|(THIS\s+AFTERNOON)|([A-Z]{3,7}(?:\s+NIGHT)?)
PeriodPatternName(name) ==
    \/ Len(name) = 3 /\ name[1] = "REST" /\ name[2] = "OF"
    \/ name = THIS_AFTERNOON
    \/ StandardName(name)

\* period_pattern of convert_forecast_periods (line 188): name, then \.\.\.?
IsConverterHeader(sec) == PeriodPatternName(sec.name) /\ sec.dots \in {2, 3}

\* the pattern of the detector (line 107)
IsDetectorHeader(sec) == StandardName(sec.name) /\ sec.dots \in {2, 3}

\* re.findall of a period pattern: a section whose header the pattern
\* matches opens a period; the text of any other section runs on into the
\* period before it (the lazy content stops at the next matching header
\* only), and text before the first matching header is skipped.
RECURSIVE FindPeriods(_, _, _)
FindPeriods(sections, is_header, acc) ==
    IF sections = <<>> THEN acc
    ELSE LET sec == Head(sections) IN
         IF Head(is_header)
         THEN FindPeriods(Tail(sections), Tail(is_header),
                          Append(acc, [name |-> sec.name, content |-> sec.content]))
         ELSE IF acc = <<>>
         THEN FindPeriods(Tail(sections), Tail(is_header), acc)
         ELSE FindPeriods(Tail(sections), Tail(is_header),
                  [acc EXCEPT ![Len(acc)].content =
                      @ \o <<"nl">> \o HeaderText(sec) \o sec.content])

\* ------------------------------------------------------------------------
\* ForecastCorruptionDetector.detect_corruption_patterns
\* ------------------------------------------------------------------------
\* body.marks lists, in text order, the contamination signatures the text
\* holds, each named by the check that matches it.
nws_patterns ==
    <<"NWS_PRODUCT_CODE", "NWS_PRODUCT_NAME", "NWS_HEADER", "NWS_ATTRIBUTION",
      "NWS_AREA_DESCRIPTION", "NWS_ZONE_CODE", "NWS_SYNOPSIS", "STANDALONE_NUMBER",
      "EMBEDDED_TIMESTAMP">>

non_weather_keywords ==
    <<"high pressure center was located", "thermal low was over",
      "pattern will not change", "including the Channel Islands", "out 60 NM",
      "National Marine Sanctuary">>

FullDayNames ==
    {"MONDAY", "TUESDAY", "WEDNESDAY", "THURSDAY", "FRIDAY", "SATURDAY", "SUNDAY"}

FirstN(s, n) == SubSeq(s, 1, IF Len(s) < n THEN Len(s) ELSE n)

\* re.findall of one pattern of a family: the matches, in text order
MatchesOf(body, corruption_type) ==
    LET InMarks == SelectSeq(body.marks, LAMBDA m : m = corruption_type)
        Named(Test(_)) ==
            LET hit == SelectSeq(body.sections, Test)
            IN [k \in 1..Len(hit) |-> hit[k].name]
    IN CASE corruption_type = "INCOMPLETE_DOTS" ->
               Named(LAMBDA sec : StandardName(sec.name) /\ sec.dots = 2)
         [] corruption_type = "MULTI_DAY_RANGE" ->
               Named(LAMBDA sec : /\ Len(sec.name) = 3
                                  /\ WordLen(sec.name[1]) = 3
                                  /\ sec.name[2] = "THROUGH"
                                  /\ WordLen(sec.name[3]) = 3
                                  /\ sec.dots = 3)
         [] corruption_type = "FULL_DAY_NAME" ->
               Named(LAMBDA sec : /\ Len(sec.name) = 1
                                  /\ sec.name[1] \in FullDayNames
                                  /\ sec.dots = 3)
         [] corruption_type = "FULL_DAY_NIGHT_NAME" ->
               Named(LAMBDA sec : /\ Len(sec.name) = 2
                                  /\ sec.name[1] \in FullDayNames
                                  /\ sec.name[2] = "NIGHT"
                                  /\ sec.dots = 3)
         [] corruption_type = "EMBEDDED_TIMESTAMPS" ->
               SelectSeq(body.marks,
                          LAMBDA m : m \in {"EMBEDDED_TIMESTAMP", "INLINE_TIMESTAMP"})
         [] OTHER -> InMarks

truncated_patterns == <<"TRUNCATED_PERIOD", "INCOMPLETE_DOTS", "MISSING_DOTS">>
anomalous_patterns == <<"MULTI_DAY_RANGE", "FULL_DAY_NAME", "FULL_DAY_NIGHT_NAME">>

\* one "for pattern, corruption_type in ...:" loop (lines 83-88, 91-96, 99-104)
RECURSIVE CheckFamily(_, _, _)
CheckFamily(body, family, info) ==
    IF family = <<>> THEN info
    ELSE LET matches == MatchesOf(body, Head(family)) IN
         CheckFamily(body, Tail(family),
             IF matches # <<>>
             THEN [has_corruption |-> TRUE,
                   corruption_types |-> Append(info.corruption_types, Head(family)),
                   corruption_details |->
                       info.corruption_details \o
                           [k \in 1..Len(FirstN(matches, 3)) |->
                               <<Head(family), matches[k]>>]]
             ELSE info)

\* lines 110-115
RECURSIVE CheckLongPeriods(_, _)
CheckLongPeriods(periods, info) ==
    IF periods = <<>> THEN info
    ELSE LET content_length == TextLen(Strip(Head(periods).content)) IN
         CheckLongPeriods(Tail(periods),
             IF content_length > 1000
             THEN [has_corruption |-> TRUE,
                   corruption_types |->
                       Append(info.corruption_types, "ABNORMALLY_LONG_PERIOD"),
                   corruption_details |->
                       Append(info.corruption_details,
                              <<"ABNORMALLY_LONG_PERIOD", Head(periods).name>>)]
             ELSE info)

\* mutant: the category is recorded but the verdict is not set
CheckTimestamps_verdict_unset(body, info) ==
    LET timestamp_matches == MatchesOf(body, "EMBEDDED_TIMESTAMPS") IN
    IF Len(timestamp_matches) > 0
    THEN [has_corruption |-> info.has_corruption,
          corruption_types |-> Append(info.corruption_types, "EMBEDDED_TIMESTAMPS"),
          corruption_details |->
              info.corruption_details \o
                  [k \in 1..Len(FirstN(timestamp_matches, 2)) |->
                      <<"EMBEDDED_TIMESTAMPS", timestamp_matches[k]>>]]
    ELSE info

\* mutant: one timestamp in the content is let through
CheckTimestamps_needs_two(body, info) ==
    LET timestamp_matches == MatchesOf(body, "EMBEDDED_TIMESTAMPS") IN
    IF Len(timestamp_matches) > 1
    THEN [has_corruption |-> TRUE,
          corruption_types |-> Append(info.corruption_types, "EMBEDDED_TIMESTAMPS"),
          corruption_details |->
              info.corruption_details \o
                  [k \in 1..Len(FirstN(timestamp_matches, 2)) |->
                      <<"EMBEDDED_TIMESTAMPS", timestamp_matches[k]>>]]
    ELSE info

\* lines 118-123
CheckTimestamps(body, info) ==
    LET timestamp_matches == MatchesOf(body, "EMBEDDED_TIMESTAMPS") IN
    IF Len(timestamp_matches) > 0
    THEN [has_corruption |-> TRUE,
          corruption_types |-> Append(info.corruption_types, "EMBEDDED_TIMESTAMPS"),
          corruption_details |->
              info.corruption_details \o
                  [k \in 1..Len(FirstN(timestamp_matches, 2)) |->
                      <<"EMBEDDED_TIMESTAMPS", timestamp_matches[k]>>]]
    ELSE info

AppendOnce(s, x) == IF \E k \in 1..Len(s) : s[k] = x THEN s ELSE Append(s, x)

\* lines 126-131
RECURSIVE CheckKeywords(_, _, _)
CheckKeywords(body, keywords, info) ==
    IF keywords = <<>> THEN info
    ELSE CheckKeywords(body, Tail(keywords),
             IF \E k \in 1..Len(body.marks) : body.marks[k] = Head(keywords)
             THEN [has_corruption |-> TRUE,
                   corruption_types |->
                       AppendOnce(info.corruption_types, "NON_WEATHER_CONTENT"),
                   corruption_details |->
                       Append(info.corruption_details,
                              <<"NON_WEATHER_CONTENT", Head(keywords)>>)]
             ELSE info)

\* lines 134-141
RECURSIVE CheckShortPeriods(_, _)
CheckShortPeriods(periods, info) ==
    IF periods = <<>> THEN info
    ELSE LET clean_content == Strip(Head(periods).content) IN
         CheckShortPeriods(Tail(periods),
             IF TextLen(clean_content) < 10
             THEN [has_corruption |-> TRUE,
                   corruption_types |->
                       AppendOnce(info.corruption_types, "EXTREMELY_SHORT_PERIOD"),
                   corruption_details |->
                       Append(info.corruption_details,
                              <<"EXTREMELY_SHORT_PERIOD", Head(periods).name>>)]
             ELSE info)

\* mutant: the checks after the first family are skipped once it matched
detect_corruption_patterns_first_family_wins(forecast_content) ==
    LET start == [has_corruption |-> FALSE,
                  corruption_types |-> <<>>,
                  corruption_details |-> <<>>]
        periods ==
            FindPeriods(forecast_content.sections,
                        [k \in 1..Len(forecast_content.sections) |->
                            IsDetectorHeader(forecast_content.sections[k])],
                        <<>>)
        a == CheckFamily(forecast_content, nws_patterns, start)
        b == CheckFamily(forecast_content, truncated_patterns, a)
        c == CheckFamily(forecast_content, anomalous_patterns, b)
        d == CheckLongPeriods(periods, c)
        e == CheckTimestamps(forecast_content, d)
        f == CheckKeywords(forecast_content, non_weather_keywords, e)
    IN IF a.has_corruption THEN a ELSE CheckShortPeriods(periods, f)

\* lines 66-143
detect_corruption_patterns(forecast_content) ==
    LET start == [has_corruption |-> FALSE,
                  corruption_types |-> <<>>,
                  corruption_details |-> <<>>]
        periods ==
            FindPeriods(forecast_content.sections,
                        [k \in 1..Len(forecast_content.sections) |->
                            IsDetectorHeader(forecast_content.sections[k])],
                        <<>>)
        a == CheckFamily(forecast_content, nws_patterns, start)
        b == CheckFamily(forecast_content, truncated_patterns, a)
        c == CheckFamily(forecast_content, anomalous_patterns, b)
        d == CheckLongPeriods(periods, c)
        e == CheckTimestamps(forecast_content, d)
        f == CheckKeywords(forecast_content, non_weather_keywords, e)
    IN CheckShortPeriods(periods, f)

\* ------------------------------------------------------------------------
\* ForecastPeriodConverter.extract_warnings and convert_forecast_periods
\* ------------------------------------------------------------------------
\* re.sub(r'\s+', ' ', warning.strip())
clean_warning(warning) == CollapseSpaces(Strip(warning))

extract_warnings(forecast_text) ==
    IF forecast_text.warnings = <<>>
    THEN [warnings |-> None, clean_content |-> forecast_text]
    ELSE [warnings |->
              [marker |-> "WARNING: ",
               joined |-> [k \in 1..Len(forecast_text.warnings) |->
                              clean_warning(forecast_text.warnings[k])]],
          clean_content |->
              [forecast_text EXCEPT !.warnings = <<>>, !.prose = Strip(@)]]

\* lines 188-221: the (period_name, period_content) pairs
parse_periods(forecast_text) ==
    FindPeriods(forecast_text.sections,
                [k \in 1..Len(forecast_text.sections) |->
                    IsConverterHeader(forecast_text.sections[k])],
                <<>>)

\* mutant: the early return for an empty period list is missing
convert_forecast_periods_no_early_return(forecast_text, time) ==
    [kind |-> "lines", lines |-> converted_lines(parse_periods(forecast_text), time)]

\* lines 190-194, then the loop and the join of line 269
convert_forecast_periods(forecast_text, time) ==
    LET periods == parse_periods(forecast_text) IN
    IF periods = <<>>
    THEN [kind |-> "text", text |-> forecast_text]
    ELSE [kind |-> "lines", lines |-> converted_lines(periods, time)]

\* ------------------------------------------------------------------------
\* The output read back: ForecastProcessor.parse_forecast_content
\* (generate_training_data.py)
\* ------------------------------------------------------------------------
\* period_match.group(2).lower()
Lower(kind) == IF kind = "DAY" THEN "day" ELSE "night"

\* the pattern (D\d+)_(DAY|NIGHT)\s+\(([^)]+)\)\s+(.*) on line.strip(): a
\* line whose content is empty ends at the date and does not match
period_match(line) == Strip(line.content) # <<>>

\* key = f"{day_num}_{period_type}"
period_key(line) ==
    [day_num |-> line.label.offset, period_type |-> Lower(line.label.kind)]

\* periods[key] = {...}: a key met again keeps its place in the dict
RECURSIVE DictKeys(_, _)
DictKeys(keys, acc) ==
    IF keys = <<>> THEN acc
    ELSE DictKeys(Tail(keys), AppendOnce(acc, Head(keys)))

\* the keys of the periods dict, in the order of the dict
parse_forecast_content(lines) ==
    LET matched == SelectSeq(lines, period_match)
    IN DictKeys([k \in 1..Len(matched) |-> period_key(matched[k])], <<>>)

\* '\n'.join(converted_periods) taken as a forecast text again: lines, none
\* of which opens with a period header
OutputText(lines) == Body(lines, <<>>, <<>>, <<>>)

\* ------------------------------------------------------------------------
\* Inputs of the mapper
\* ------------------------------------------------------------------------
DayCodes == {"MON", "TUE", "WED"}

\* the period names the parser's pattern lets through: the vocabulary, and
\* any other word of 3 to 7 capitals (group 4 of period_pattern)
Vocabulary ==
    {TODAY, TONIGHT, REST_OF_TODAY, REST_OF_TONIGHT, THIS_AFTERNOON}
        \cup {<<w>> : w \in DayCodes}
        \cup {<<w, "NIGHT">> : w \in DayCodes}
ParsedNames == Vocabulary \cup {<<"WAVES">>}

IsWeekdayName(name) ==
    /\ Len(name) \in {1, 2}
    /\ name[1] \in DOMAIN weekday_to_num
    /\ Len(name) = 2 => name[2] = "NIGHT"

RawContents ==
    {<<"sp", "N wind 5 kt.", "nl", "WaveDetail", "sp", "sp", "2 ft.", "nl">>}

\* the period lists the documentation works through
ExamplePeriodNames ==
    {<<TODAY, TONIGHT, <<"TUE">>, <<"TUE", "NIGHT">>, <<"WED">> >>,
     <<TODAY, TONIGHT, <<"MON">>, <<"MON", "NIGHT">>, <<"TUE">>,
       <<"TUE", "NIGHT">>, <<"WED">>, <<"WED", "NIGHT">> >>,
     <<TODAY, TONIGHT, <<"MON">>, <<"MON", "NIGHT">>, <<"TUE">>,
       <<"TUE", "NIGHT">>, <<"WED">>, <<"WED", "NIGHT">>, <<"THU">>,
       <<"THU", "NIGHT">>, <<"FRI">> >>}

RECURSIVE SeqsUpTo(_, _)
SeqsUpTo(S, n) ==
    IF n = 0 THEN {<<>>}
    ELSE LET shorter == SeqsUpTo(S, n - 1) IN
         shorter \cup {Append(q, x) : q \in shorter, x \in S}

PeriodNameLists == (SeqsUpTo(ParsedNames, MaxPeriods) \ {<<>>}) \cup ExamplePeriodNames

WithContents(names) ==
    [k \in 1..Len(names) |->
        [name |-> names[k], content |-> CHOOSE c \in RawContents : TRUE]]

IssueStamps ==
    {Stamp(2024, 1, 7, 8),      \* a Sunday
     Stamp(2024, 12, 30, 5),    \* a Monday, before 6 o'clock
     Stamp(2024, 2, 28, 17)}    \* a Wednesday of a leap year

\* ------------------------------------------------------------------------
\* State machine of one convert_forecast_periods call (MapperSpec)
\* ------------------------------------------------------------------------
PipelineIdle ==
    /\ forecast_blocks = <<>>
    /\ pc = "idle"
    /\ idx = 0
    /\ corrupted_forecasts = <<>>
    /\ corrupted_timestamps = {}
    /\ converted_blocks = <<>>
    /\ processed_count = 0
    /\ error_count = 0
    /\ output_file = <<>>
    /\ result = None
    /\ verdicts = <<>>
    /\ convert_calls = {}
    /\ origin = <<>>

MapperInit ==
    /\ \E names \in PeriodNameLists : processed_periods = WithContents(names)
    /\ \E ts \in IssueStamps : forecast_time = parse_forecast_timestamp(ts)
    /\ i = 1
    /\ current_day_offset = initial_day_offset(forecast_time.hour)
    /\ converted_periods = <<>>
    /\ mpc = "loop"
    /\ PipelineIdle

\* one iteration of the loop of lines 223-267
ConvertPeriod ==
    /\ mpc = "loop"
    /\ i <= Len(processed_periods)
    /\ converted_periods' =
           Append(converted_periods,
                  converted_line(processed_periods, i, current_day_offset,
                                 forecast_time.date))
    /\ current_day_offset' = next_day_offset(processed_periods, i, current_day_offset)
    /\ i' = i + 1
    /\ UNCHANGED <<processed_periods, forecast_time, mpc, pvars>>

\* line 269: the loop is over, the lines are joined and returned
ConvertReturn ==
    /\ mpc = "loop"
    /\ i > Len(processed_periods)
    /\ mpc' = "done"
    /\ UNCHANGED <<processed_periods, forecast_time, i, current_day_offset,
                   converted_periods, pvars>>

MapperNext == ConvertPeriod \/ ConvertReturn

MapperSpec == MapperInit /\ [][MapperNext]_vars

\* ------------------------------------------------------------------------
\* Inputs of the pipeline
\* ------------------------------------------------------------------------
TsSunday == Stamp(2024, 1, 7, 8)        \* 2024-01-07T08:00:00-08:00
TsYearEnd == Stamp(2024, 12, 31, 5)     \* 2024-12-31T05:00:00-08:00
TsBad == Stamp(2024, 13, 45, 8)         \* 2024-13-45T08:00:00-08:00: no date-time

\* .TODAY...N wind 5 to 10 kt. / .TONIGHT...N wind 5 kt. / .MON...SW wind 10 kt.
ExampleBody ==
    Body(<<>>, <<>>,
         <<Section(TODAY, 3, <<"N wind 5 to 10 kt.", "nl">>),
           Section(TONIGHT, 3, <<"N wind 5 kt.", "nl">>),
           Section(<<"MON">>, 3, <<"SW wind 10 kt.">>)>>,
         <<>>)

\* a warning line, then periods with untidy white space and a wave sub-header
WarnBody ==
    Body(<<>>, << <<"sp", "SMALL", "sp", "sp", "CRAFT", "sp">> >>,
         <<Section(TONIGHT, 3,
                   <<"N wind 5 kt.", "nl", "sp", "WaveDetail", "sp", "2 ft.", "nl">>),
           Section(<<"WED">>, 3, <<"sp", "SW wind 10 kt.", "nl">>),
           Section(<<"THU">>, 3, <<"N wind 5 to 10 kt.">>)>>,
         <<>>)

\* text with no period header at all
ProseBody == Body(<<"No forecast.">>, <<>>, <<>>, <<>>)

\* warning lines and nothing else
WarnOnlyBody == Body(<<>>, << <<"GALE", "sp", "WARNING">> >>, <<>>, <<>>)

\* an embedded product name
ProductBody ==
    Body(<<>>, <<>>, <<Section(TODAY, 3, <<"N wind 5 kt.">>)>>, <<"NWS_PRODUCT_NAME">>)

\* a period cut short
ShortBody == Body(<<>>, <<>>, <<Section(<<"TUE">>, 3, <<"2 ft.">>)>>, <<>>)

Block(ts, body) == [ts |-> ts, body |-> body]

BlockUniverse ==
    {Block(NoTimestamp, EmptyBody),
     Block(NoTimestamp, ProseBody),
     Block(TsSunday, ExampleBody),
     Block(TsSunday, ProductBody),
     Block(TsSunday, EmptyBody),
     Block(TsSunday, WarnOnlyBody),
     Block(TsYearEnd, WarnBody),
     Block(TsYearEnd, ProseBody),
     Block(TsYearEnd, ShortBody),
     Block(TsBad, ExampleBody),
     Block(TsBad, ShortBody)}

\* "if not block:" after block.strip()
BlockIsEmpty(block) == block.ts = NoTimestamp /\ BodyIsEmpty(block.body)

\* ------------------------------------------------------------------------
\* NWSForecastProcessor.process (Spec)
\* ------------------------------------------------------------------------
MapperIdle ==
    /\ processed_periods = <<>>
    /\ forecast_time = None
    /\ i = 0
    /\ current_day_offset = 0
    /\ converted_periods = <<>>
    /\ mpc = "idle"

Init ==
    /\ forecast_blocks \in SeqsUpTo(BlockUniverse, MaxBlocks)
    /\ pc = "analyze"
    /\ idx = 1
    /\ corrupted_forecasts = <<>>
    /\ corrupted_timestamps = {}
    /\ converted_blocks = <<>>
    /\ processed_count = 0
    /\ error_count = 0
    /\ output_file = <<>>
    /\ result = None
    /\ verdicts = <<>>
    /\ convert_calls = {}
    /\ origin = <<>>
    /\ MapperIdle

\* one iteration of the loop of analyze_forecast_file (lines 289-315)
AnalyzeBlock ==
    /\ pc = "analyze"
    /\ idx <= Len(forecast_blocks)
    /\ LET block == forecast_blocks[idx]
           analysed == /\ ~BlockIsEmpty(block)
                       /\ block.ts # NoTimestamp
                       /\ ~BodyIsEmpty(block.body)
           corruption_info == detect_corruption_patterns(block.body)
       IN /\ verdicts' = IF analysed
                         THEN verdicts @@ (idx :> corruption_info.has_corruption)
                         ELSE verdicts
          /\ corrupted_forecasts' =
                 IF analysed /\ corruption_info.has_corruption
                 THEN Append(corrupted_forecasts,
                             [timestamp |-> block.ts,
                              corruption_types |-> corruption_info.corruption_types,
                              corruption_details |-> corruption_info.corruption_details])
                 ELSE corrupted_forecasts
    /\ idx' = idx + 1
    /\ UNCHANGED <<forecast_blocks, pc, corrupted_timestamps, converted_blocks,
                   processed_count, error_count, output_file, result,
                   convert_calls, origin, mvars>>

\* timestamps compare as the strings they are
StampLeq(a, b) ==
    \/ a.year < b.year
    \/ a.year = b.year /\ a.month < b.month
    \/ a.year = b.year /\ a.month = b.month /\ a.day < b.day
    \/ a.year = b.year /\ a.month = b.month /\ a.day = b.day /\ a.hour <= b.hour

RECURSIVE InsertByTimestamp(_, _)
InsertByTimestamp(sorted, x) ==
    IF sorted = <<>> THEN <<x>>
    ELSE IF StampLeq(Head(sorted).timestamp, x.timestamp)
         THEN <<Head(sorted)>> \o InsertByTimestamp(Tail(sorted), x)
         ELSE <<x>> \o sorted

\* self.corrupted_forecasts.sort(key=lambda x: x['timestamp']) (line 414)
RECURSIVE SortByTimestamp(_)
SortByTimestamp(list) ==
    IF list = <<>> THEN <<>>
    ELSE InsertByTimestamp(SortByTimestamp(SubSeq(list, 1, Len(list) - 1)),
                           list[Len(list)])

\* process(), lines 501-514, and the head of process_forecast_file (325-332):
\* the report is generated when anything was found, then the exclusion set
\* is taken from self.corrupted_forecasts
StartProcessing ==
    /\ pc = "analyze"
    /\ idx > Len(forecast_blocks)
    /\ corrupted_forecasts' = SortByTimestamp(corrupted_forecasts)
    /\ corrupted_timestamps' =
           {corrupted_forecasts[k].timestamp : k \in 1..Len(corrupted_forecasts)}
    /\ pc' = "process"
    /\ idx' = 1
    /\ UNCHANGED <<forecast_blocks, converted_blocks, processed_count, error_count,
                   output_file, result, verdicts, convert_calls, origin, mvars>>

EmptyOutput == [kind |-> "empty"]
KeptBlock(block) == [kind |-> "kept", block |-> block]
ConvertedBlock(timestamp_str, warnings, converted_content) ==
    [kind |-> "converted",
     issued_line |-> timestamp_str,
     warnings |-> warnings,
     converted_content |-> converted_content]

\* mutant: the exclusion set is never consulted
is_excluded_never(timestamp_str, excluded) == FALSE

\* line 347: "if timestamp_str in corrupted_timestamps"
is_excluded(timestamp_str, excluded) == timestamp_str \in excluded

\* mutant: a block whose timestamp does not parse is dropped
on_parse_error_discard(block) == <<>>

\* lines 377-379: the timestamp does not parse
on_parse_error(block) == <<KeptBlock(block)>>

\* mutant: a block with no timestamp is dropped
on_missing_timestamp_discard(block) == <<>>

\* lines 380-381: no timestamp in the block
on_missing_timestamp(block) == <<KeptBlock(block)>>

\* mutant: new entries go to the front of the list
prepend_blocks(list, out) == out \o list

\* converted_blocks.append(...), for every entry of out
append_blocks(list, out) == list \o out

\* what one iteration of the loop of process_forecast_file appends to
\* converted_blocks (lines 334-381): <<>> when the block is dropped
block_output(block, excluded) ==
    IF BlockIsEmpty(block) THEN <<EmptyOutput>>
    ELSE IF block.ts = NoTimestamp THEN on_missing_timestamp(block)
    ELSE IF is_excluded(block.ts, excluded) THEN <<>>
    ELSE IF parse_forecast_timestamp(block.ts) = None THEN on_parse_error(block)
    ELSE IF BodyIsEmpty(block.body) THEN <<>>
    ELSE LET extracted == extract_warnings(block.body) IN
         <<ConvertedBlock(block.ts, extracted.warnings,
               convert_forecast_periods(extracted.clean_content,
                                        parse_forecast_timestamp(block.ts)))>>

\* one iteration of the loop of process_forecast_file
ProcessBlock ==
    /\ pc = "process"
    /\ idx <= Len(forecast_blocks)
    /\ LET block == forecast_blocks[idx]
           out == block_output(block, corrupted_timestamps)
           converted == out # <<>> /\ out[1].kind = "converted"
           parse_error == /\ out # <<>>
                          /\ out[1].kind = "kept"
                          /\ block.ts # NoTimestamp
       IN /\ converted_blocks' = append_blocks(converted_blocks, out)
          /\ origin' = append_blocks(origin, [k \in 1..Len(out) |-> idx])
          /\ processed_count' = processed_count + (IF converted THEN 1 ELSE 0)
          /\ error_count' = error_count + (IF parse_error THEN 1 ELSE 0)
          /\ convert_calls' = IF converted THEN convert_calls \cup {idx}
                                           ELSE convert_calls
    /\ idx' = idx + 1
    /\ UNCHANGED <<forecast_blocks, pc, corrupted_forecasts, corrupted_timestamps,
                   output_file, result, verdicts, mvars>>

\* lines 384-392: every non-empty block, and the delimiter after it unless
\* it is the last entry of converted_blocks
RECURSIVE WrittenFrom(_, _)
WrittenFrom(blocks, k) ==
    IF k > Len(blocks) THEN <<>>
    ELSE (IF blocks[k].kind # "empty"
          THEN <<blocks[k]>> \o (IF k < Len(blocks) THEN <<[kind |-> "$$"]>> ELSE <<>>)
          ELSE <<>>)
         \o WrittenFrom(blocks, k + 1)

\* the end of process_forecast_file: the file is written, the counts returned
WriteOutput ==
    /\ pc = "process"
    /\ idx > Len(forecast_blocks)
    /\ output_file' = WrittenFrom(converted_blocks, 1)
    /\ result' = [processed_count |-> processed_count,
                  error_count |-> error_count,
                  skipped_count |-> Cardinality(corrupted_timestamps)]
    /\ pc' = "done"
    /\ UNCHANGED <<forecast_blocks, idx, corrupted_forecasts, corrupted_timestamps,
                   converted_blocks, processed_count, error_count, verdicts,
                   convert_calls, origin, mvars>>

Next == AnalyzeBlock \/ StartProcessing \/ ProcessBlock \/ WriteOutput

Spec == Init /\ [][Next]_vars

\* ------------------------------------------------------------------------
\* NWSForecastProcessor.process on a file of one block (BlockSpec): the
\* detector and the converter over a wider range of bodies
\* ------------------------------------------------------------------------
MaxSections == 2

SectionNames ==
    {TODAY, TONIGHT, REST_OF_TODAY, REST_OF_TONIGHT, THIS_AFTERNOON,
     <<"MON">>, <<"MON", "NIGHT">>}

OrdinaryText == <<"N wind 5 kt.", "nl">>

\* contents at and just over the length the detector compares with
SectionContents == {OrdinaryText, <<"text of 1000 chars">>, <<"text of 1001 chars">>}

\* a header of the vocabulary with three dots and any content, or with one
\* or two dots and ordinary content
SectionUniverse ==
    {Section(n, 3, c) : n \in SectionNames, c \in SectionContents}
        \cup {Section(n, d, OrdinaryText) : n \in SectionNames, d \in {1, 2}}

\* four periods cut short
FourShortBody ==
    Body(<<>>, <<>>,
         <<Section(<<"MON">>, 3, <<"2 ft.">>), Section(<<"TUE">>, 3, <<"2 ft.">>),
           Section(<<"WED">>, 3, <<"2 ft.">>), Section(<<"THU">>, 3, <<"2 ft.">>)>>,
         <<>>)

\* four of the non-weather phrases
KeywordsBody ==
    Body(<<>>, <<>>, <<Section(TODAY, 3, OrdinaryText)>>,
         <<"high pressure center was located", "thermal low was over",
           "out 60 NM", "National Marine Sanctuary">>)

\* a second timestamp inside a line of the only period
InlineTimestampBody ==
    Body(<<>>, <<>>, <<Section(TODAY, 3, OrdinaryText)>>, <<"INLINE_TIMESTAMP">>)

\* a second timestamp on a line of its own
TimestampLineBody ==
    Body(<<>>, <<>>, <<Section(TONIGHT, 3, OrdinaryText)>>, <<"EMBEDDED_TIMESTAMP">>)

\* three more timestamps inside the text
ThreeTimestampsBody ==
    Body(<<"No forecast.">>, <<>>, <<>>,
         <<"INLINE_TIMESTAMP", "INLINE_TIMESTAMP", "INLINE_TIMESTAMP">>)

\* a header with a word that names no period, after a period that is one
OtherWordBody ==
    Body(<<>>, <<>>,
         <<Section(TODAY, 3, OrdinaryText), Section(<<"WAVES">>, 3, <<"N wind 5 kt.">>)>>,
         <<>>)

\* REST OF followed by a word other than TODAY and TONIGHT
RestOfWeekBody ==
    Body(<<>>, <<>>, <<Section(<<"REST", "OF", "WEEK">>, 3, OrdinaryText)>>, <<>>)

\* several signatures at once: a product name, a zone code, a timestamp
\* inside a line, a non-weather phrase and a period cut short
SeveralSignaturesBody ==
    Body(<<>>, <<>>, <<Section(<<"TUE">>, 3, <<"2 ft.">>)>>,
         <<"NWS_PRODUCT_NAME", "NWS_ZONE_CODE", "INLINE_TIMESTAMP", "out 60 NM">>)

BodyUniverse ==
    {Body(<<>>, <<>>, sections, <<>>) :
        sections \in SeqsUpTo(SectionUniverse, MaxSections) \ {<<>>}}
        \cup {ExampleBody, WarnBody, ProseBody, WarnOnlyBody, ProductBody, ShortBody,
              FourShortBody, KeywordsBody, InlineTimestampBody, TimestampLineBody,
              ThreeTimestampsBody, OtherWordBody, RestOfWeekBody,
              SeveralSignaturesBody}

BlockInit ==
    /\ \E body \in BodyUniverse : forecast_blocks = <<Block(TsSunday, body)>>
    /\ pc = "analyze"
    /\ idx = 1
    /\ corrupted_forecasts = <<>>
    /\ corrupted_timestamps = {}
    /\ converted_blocks = <<>>
    /\ processed_count = 0
    /\ error_count = 0
    /\ output_file = <<>>
    /\ result = None
    /\ verdicts = <<>>
    /\ convert_calls = {}
    /\ origin = <<>>
    /\ MapperIdle

BlockSpec == BlockInit /\ [][Next]_vars

\* ------------------------------------------------------------------------
\* Claims about the mapper (checked under MapperSpec)
\* ------------------------------------------------------------------------
Label(n, kind) == [offset |-> n, kind |-> kind]
NamesOf(periods) == [k \in 1..Len(periods) |-> periods[k].name]
Emitted == 1..Len(converted_periods)
IssueDate == forecast_time.date
DaysAhead(k) == Ordinal(converted_periods[k].date) - Ordinal(IssueDate)

\* The layout the sequential mapper is written for: the same-day aliases
\* first (day aliases, then at most one night alias), then weekday-coded
\* periods of consecutive calendar days, where a day period is followed by
\* its own night or by the next day's day period, and a night period by a
\* period of the next day; the first period names the issuance day.
NightPart(name) == name \in {TONIGHT, REST_OF_TONIGHT} \/ EndsWithNight(name)
IsAlias(name) ==
    name \in {TODAY, TONIGHT, REST_OF_TODAY, REST_OF_TONIGHT, THIS_AFTERNOON}
NamedDay(name, issue_weekday) ==
    IF IsAlias(name) THEN issue_weekday ELSE weekday_to_num[name[1]]
CanonicalLayout(names, issue_weekday) ==
    /\ \A k \in 1..Len(names) : IsAlias(names[k]) \/ IsWeekdayName(names[k])
    /\ NamedDay(names[1], issue_weekday) = issue_weekday
    /\ \A k \in 1..(Len(names) - 1) :
          LET a == names[k]
              b == names[k + 1]
              same == NamedDay(b, issue_weekday) = NamedDay(a, issue_weekday)
              next == NamedDay(b, issue_weekday)
                          = (NamedDay(a, issue_weekday) + 1) % 7
          IN /\ IsAlias(b) => IsAlias(a) /\ ~NightPart(a)
             /\ IF NightPart(a) THEN next
                ELSE IF IsAlias(a) THEN same
                ELSE (NightPart(b) /\ same) \/ (~NightPart(b) /\ next)

C3_OffsetsAndDatesMonotone ==
    \A j, k \in Emitted :
        j < k =>
            /\ converted_periods[j].label.offset <= converted_periods[k].label.offset
            /\ DateLeq(converted_periods[j].date, converted_periods[k].date)

C3_Witness ==
    /\ mpc = "done"
    /\ \E j, k \in Emitted :
          /\ j < k
          /\ converted_periods[j].label.offset < converted_periods[k].label.offset
          /\ converted_periods[j].date.year < converted_periods[k].date.year

\* C4: every emitted date is the issuance date plus the offset of its own
\* label, which is the offset held when the line is emitted; so a _DAY and
\* a _NIGHT label with the same offset carry the same date.
C4_DateIsIssuancePlusLabelOffset ==
    /\ \A k \in Emitted : DaysAhead(k) = converted_periods[k].label.offset
    /\ \A j, k \in Emitted :
          converted_periods[j].label.offset = converted_periods[k].label.offset
              => converted_periods[j].date = converted_periods[k].date
    /\ converted_periods # <<>> =>
          current_day_offset - converted_periods[Len(converted_periods)].label.offset
              \in {0, 1}

C4_Witness ==
    /\ mpc = "done"
    /\ \E j, k \in Emitted :
          /\ converted_periods[j].label = Label(2, "DAY")
          /\ converted_periods[k].label = Label(2, "NIGHT")
          /\ converted_periods[j].date.month # IssueDate.month

\* C5: [TODAY, TONIGHT, TUE, TUE NIGHT, WED] gets D0_DAY, D0_NIGHT, D1_DAY,
\* D1_NIGHT, D2_DAY; TUE is dated issuance + 1 day and WED issuance + 2
\* days, for every issuance timestamp.
C5_Names == <<TODAY, TONIGHT, <<"TUE">>, <<"TUE", "NIGHT">>, <<"WED">> >>
C5_DocumentedExample ==
    (mpc = "done" /\ NamesOf(processed_periods) = C5_Names) =>
        /\ [k \in Emitted |-> converted_periods[k].label]
               = <<Label(0, "DAY"), Label(0, "NIGHT"), Label(1, "DAY"),
                   Label(1, "NIGHT"), Label(2, "DAY")>>
        /\ [k \in Emitted |-> DaysAhead(k)] = <<0, 0, 1, 1, 2>>
        /\ IssueDate = [year |-> 2024, month |-> 1, day |-> 7] =>
              /\ converted_periods[3].date = [year |-> 2024, month |-> 1, day |-> 8]
              /\ converted_periods[5].date = [year |-> 2024, month |-> 1, day |-> 9]

C5_Witness ==
    /\ mpc = "done"
    /\ NamesOf(processed_periods) = C5_Names
    /\ Weekday(IssueDate) = 6

\* C6: [TODAY, TONIGHT] gets exactly D0_DAY then D0_NIGHT, both dated with
\* the issuance date, for every issuance timestamp.
C6_TodayTonight ==
    (mpc = "done" /\ NamesOf(processed_periods) = <<TODAY, TONIGHT>>) =>
        /\ Len(converted_periods) = 2
        /\ converted_periods[1].label = Label(0, "DAY")
        /\ converted_periods[2].label = Label(0, "NIGHT")
        /\ converted_periods[1].date = IssueDate
        /\ converted_periods[2].date = IssueDate

C6_Witness ==
    /\ mpc = "done"
    /\ NamesOf(processed_periods) = <<TODAY, TONIGHT>>
    /\ forecast_time.hour < 6

\* ------------------------------------------------------------------------
\* Claims about the pipeline (checked under Spec)
\* ------------------------------------------------------------------------
Outputs == 1..Len(converted_blocks)
SourceOf(k) == forecast_blocks[origin[k]]
\* the blocks the loop of process_forecast_file has already been through
Handled == IF pc = "analyze" THEN {} ELSE 1..(idx - 1)
Processing == pc \in {"process", "done"}

\* C1: a block the detector finds corrupted is never handed to
\* convert_forecast_periods and nothing in the output list comes from it.
C1_CorruptedNeverConverted ==
    \A b \in DOMAIN verdicts :
        verdicts[b] =>
            /\ b \notin convert_calls
            /\ \A k \in Outputs : origin[k] # b

C1_Witness ==
    /\ pc = "done"
    /\ \E b \in DOMAIN verdicts : verdicts[b] /\ b < Len(forecast_blocks)
    /\ convert_calls # {}

\* the sections of a body the converter's pattern takes as period headers
HeaderSections(body) == SelectSeq(body.sections, IsConverterHeader)
OnlyHeaders(body) == \A k \in 1..Len(body.sections) : IsConverterHeader(body.sections[k])

PeriodLinesFollowSource(out, block) ==
    LET content == out.converted_content
        headers == HeaderSections(block.body)
        issued == parse_forecast_timestamp(block.ts).date
    IN /\ content.kind = "lines"
       /\ Len(content.lines) = Len(headers)
       /\ \A j \in 1..Len(headers) :
             /\ DOMAIN content.lines[j] = {"label", "date", "content"}
             /\ content.lines[j].label.kind =
                    (IF NightPart(headers[j].name) THEN "NIGHT" ELSE "DAY")
             /\ Ordinal(content.lines[j].date)
                    = Ordinal(issued) + content.lines[j].label.offset
             /\ OnlyHeaders(block.body) =>
                    content.lines[j].content
                        = ReplaceWaveDetail(CollapseSpaces(Strip(headers[j].content)))

HeaderAndWarningFollowSource(out, block) ==
    /\ out.issued_line = block.ts
    /\ (out.warnings # None) <=> (block.body.warnings # <<>>)
    /\ out.warnings # None =>
           /\ out.warnings.marker = "WARNING: "
           /\ Len(out.warnings.joined) = Len(block.body.warnings)

ExampleLines ==
    <<[label |-> Label(0, "DAY"), date |-> [year |-> 2024, month |-> 1, day |-> 7],
       content |-> <<"N wind 5 to 10 kt.">>],
      [label |-> Label(0, "NIGHT"), date |-> [year |-> 2024, month |-> 1, day |-> 7],
       content |-> <<"N wind 5 kt.">>],
      [label |-> Label(1, "DAY"), date |-> [year |-> 2024, month |-> 1, day |-> 8],
       content |-> <<"SW wind 10 kt.">>]>>

ExampleAsDocumented(out, block) ==
    block = Block(TsSunday, ExampleBody) =>
        out.converted_content = [kind |-> "lines", lines |-> ExampleLines]

\* C7 as stated: every emitted converted block is the Issued line, a
\* WARNING line exactly when a warning line was extracted, and then one
\* line per parsed period, in source order, and nothing else.
C7_EmittedBlockIsPeriodLines ==
    \A k \in Outputs :
        converted_blocks[k].kind = "converted" =>
            /\ HeaderAndWarningFollowSource(converted_blocks[k], SourceOf(k))
            /\ \/ PeriodLinesFollowSource(converted_blocks[k], SourceOf(k))
               \/ /\ converted_blocks[k].converted_content.kind = "text"
                  /\ BodyIsEmpty(converted_blocks[k].converted_content.text)
            /\ ExampleAsDocumented(converted_blocks[k], SourceOf(k))

\* C7 amended: the same, for a block in which at least one period header
\* is parsed; when none is parsed the body left after the warnings follows
\* the header unchanged.
C7_EmittedBlockFormat ==
    \A k \in Outputs :
        converted_blocks[k].kind = "converted" =>
            /\ HeaderAndWarningFollowSource(converted_blocks[k], SourceOf(k))
            /\ IF HeaderSections(SourceOf(k).body) # <<>>
               THEN PeriodLinesFollowSource(converted_blocks[k], SourceOf(k))
               ELSE converted_blocks[k].converted_content =
                        [kind |-> "text",
                         text |-> IF SourceOf(k).body.warnings = <<>>
                                  THEN SourceOf(k).body
                                  ELSE [SourceOf(k).body EXCEPT
                                           !.warnings = <<>>, !.prose = Strip(@)]]
            /\ ExampleAsDocumented(converted_blocks[k], SourceOf(k))

C7_Witness ==
    /\ pc = "done"
    /\ \E k \in Outputs :
          /\ converted_blocks[k].kind = "converted"
          /\ converted_blocks[k].warnings # None
          /\ Len(HeaderSections(SourceOf(k).body)) = 3
    /\ \E k \in Outputs : SourceOf(k) = Block(TsSunday, ExampleBody)

\* C8: the entries of the output keep the relative order of the input
\* blocks they come from, and the file lists them in that order.
C8_OutputKeepsInputOrder ==
    /\ \A j, k \in Outputs : j < k => origin[j] < origin[k]
    /\ pc = "done" =>
           SelectSeq(output_file, LAMBDA e : e.kind # "$$")
               = SelectSeq(converted_blocks, LAMBDA e : e.kind # "empty")

C8_Witness ==
    /\ pc = "done"
    /\ \E j, k \in Outputs :
          /\ j < k
          /\ origin[k] > origin[j] + 1
          /\ converted_blocks[j].kind = "kept"
          /\ converted_blocks[k].kind = "converted"

IsTextWithoutTimestamp(block) == ~BlockIsEmpty(block) /\ block.ts = NoTimestamp

\* C9 as stated: a non-empty block with no timestamp does not appear in
\* the output.
C9_NoTimestampBlockDiscarded ==
    \A k \in Outputs : ~IsTextWithoutTimestamp(SourceOf(k))

\* C9 amended: a non-empty block with no timestamp is kept in the output
\* unmodified, is counted neither as processed nor as a parsing error, and
\* the blocks after it are still processed.
C9_NoTimestampBlockKept ==
    /\ \A b \in Handled :
          IsTextWithoutTimestamp(forecast_blocks[b]) =>
              /\ \E k \in Outputs :
                    /\ origin[k] = b
                    /\ converted_blocks[k] = KeptBlock(forecast_blocks[b])
              /\ b \notin convert_calls
    /\ error_count <=
           Cardinality({b \in Handled : forecast_blocks[b].ts # NoTimestamp})
    /\ pc = "done" =>
           /\ idx = Len(forecast_blocks) + 1
           /\ \A b \in Handled :
                 IsTextWithoutTimestamp(forecast_blocks[b]) =>
                     \E k \in 1..Len(output_file) :
                         output_file[k] = KeptBlock(forecast_blocks[b])

C9_Witness ==
    /\ pc = "done"
    /\ \E b \in Handled :
          /\ IsTextWithoutTimestamp(forecast_blocks[b])
          /\ b < Len(forecast_blocks)
          /\ b + 1 \in convert_calls

\* a block whose timestamp matches the pattern, is not in the exclusion
\* set, and does not parse
IsParseError(block) ==
    /\ block.ts # NoTimestamp
    /\ block.ts \notin corrupted_timestamps
    /\ ~(/\ block.ts.month \in 1..12
         /\ block.ts.day \in 1..DaysInMonth(block.ts.year, block.ts.month)
         /\ block.ts.hour \in 0..23)

BodyAfterWarnings(body) ==
    IF body.warnings = <<>> THEN body
    ELSE [body EXCEPT !.warnings = <<>>, !.prose = Strip(@)]

\* a block that reaches the converter: a timestamp that parses and is not
\* excluded, and some text after it
ReachesConverter(block) ==
    /\ block.ts # NoTimestamp
    /\ parse_forecast_timestamp(block.ts) # None
    /\ block.ts \notin corrupted_timestamps
    /\ ~BodyIsEmpty(block.body)

\* C11: when no period header matches in the body of a block,
\* convert_forecast_periods returns the text it was given unchanged, and
\* the block is emitted with that text after its Issued line.
C11_ZeroPeriodsPassThrough ==
    \A b \in Handled :
        LET block == forecast_blocks[b] IN
        (ReachesConverter(block) /\ HeaderSections(block.body) = <<>>) =>
            /\ convert_forecast_periods(BodyAfterWarnings(block.body),
                                        parse_forecast_timestamp(block.ts))
                   = [kind |-> "text", text |-> BodyAfterWarnings(block.body)]
            /\ \E k \in Outputs :
                  /\ origin[k] = b
                  /\ converted_blocks[k].kind = "converted"
                  /\ converted_blocks[k].issued_line = block.ts
                  /\ converted_blocks[k].converted_content
                         = [kind |-> "text", text |-> BodyAfterWarnings(block.body)]
                  /\ pc = "done" =>
                         \E n \in 1..Len(output_file) :
                             output_file[n] = converted_blocks[k]

C11_Witness ==
    /\ pc = "done"
    /\ \E k \in Outputs :
          /\ converted_blocks[k].kind = "converted"
          /\ converted_blocks[k].converted_content.kind = "text"
          /\ SourceOf(k).body.sections # <<>>
          /\ output_file = <<converted_blocks[k]>>

\* what the pipeline emits for a block when the block is the whole input
\* and the detector finds it clean: its exclusion set is then empty
EmittedAlone(block) == block_output(block, {})

\* C12: whether a block is emitted, and what is emitted for it, depends on
\* that block's text alone: a block the detector finds clean, with a
\* timestamp that parses and a non-empty body, is emitted exactly as it is
\* when it is the only block of the input, whatever the other blocks are.
C12_BlocksIndependent ==
    \A b \in Handled :
        LET block == forecast_blocks[b] IN
        (/\ b \in DOMAIN verdicts
         /\ ~verdicts[b]
         /\ parse_forecast_timestamp(block.ts) # None
         /\ ~BodyIsEmpty(block.body)) =>
            /\ EmittedAlone(block) # <<>>
            /\ \E k \in Outputs :
                  origin[k] = b /\ <<converted_blocks[k]>> = EmittedAlone(block)

\* the analysis loop is over
Analysed == pc # "analyze"

\* the entries of the corruption list recorded under a block's timestamp
EntriesOf(block) ==
    SelectSeq(corrupted_forecasts, LAMBDA e : e.timestamp = block.ts)

FlaggedWith(block, corruption_type) ==
    \E n \in 1..Len(EntriesOf(block)) :
        \E t \in 1..Len(EntriesOf(block)[n].corruption_types) :
            EntriesOf(block)[n].corruption_types[t] = corruption_type

\* the text after the issuance timestamp holds another timestamp string
HasSecondTimestamp(body) ==
    \E m \in 1..Len(body.marks) :
        body.marks[m] \in {"EMBEDDED_TIMESTAMP", "INLINE_TIMESTAMP"}

\* C13: a block whose body holds a second timestamp string is flagged
\* EMBEDDED_TIMESTAMPS by the detector and nothing of it is in the output.
C13_SecondTimestampExcluded ==
    \A b \in 1..Len(forecast_blocks) :
        LET block == forecast_blocks[b] IN
        (block.ts # NoTimestamp /\ HasSecondTimestamp(block.body)) =>
            /\ Analysed => FlaggedWith(block, "EMBEDDED_TIMESTAMPS")
            /\ Analysed => block.ts \in
                   {corrupted_forecasts[n].timestamp : n \in 1..Len(corrupted_forecasts)}
            /\ Processing => block.ts \in corrupted_timestamps
            /\ b \notin convert_calls
            /\ \A k \in Outputs : origin[k] # b
            /\ \A n \in 1..Len(output_file) :
                  /\ output_file[n].kind = "converted" =>
                         output_file[n].issued_line # block.ts
                  /\ output_file[n].kind = "kept" => output_file[n].block # block

C13_Witness ==
    /\ pc = "done"
    /\ forecast_blocks = <<Block(TsSunday, InlineTimestampBody)>>
    /\ FlaggedWith(forecast_blocks[1], "EMBEDDED_TIMESTAMPS")
    /\ output_file = <<>>
    /\ result.processed_count = 0

\* the length of a period's content after the converter's cleanup
CleanedLen(period) == TextLen(collapsed_content(period.content))

\* C14: a block is flagged ABNORMALLY_LONG_PERIOD when one of its period
\* sections, whatever the header token and the position, has a content of
\* more than 1000 characters after cleanup, and is not flagged so when no
\* period content is over 1000 characters.
C14_LongPeriodFlagged ==
    Analysed =>
        \A b \in 1..Len(forecast_blocks) :
            LET block == forecast_blocks[b]
                periods == parse_periods(block.body)
            IN (block.ts # NoTimestamp /\ ~BodyIsEmpty(block.body)) =>
                   (FlaggedWith(block, "ABNORMALLY_LONG_PERIOD")
                        <=> \E n \in 1..Len(periods) : CleanedLen(periods[n]) > 1000)

\* the examples kept under one category in an entry of the corruption list
ExamplesOf(entry, corruption_type) ==
    SelectSeq(entry.corruption_details, LAMBDA d : d[1] = corruption_type)

\* C16: for every category reported for a block, at most 3 examples of
\* that category are kept in corruption_details.
C16_AtMostThreeExamples ==
    \A n \in 1..Len(corrupted_forecasts) :
        \A t \in 1..Len(corrupted_forecasts[n].corruption_types) :
            Len(ExamplesOf(corrupted_forecasts[n],
                           corrupted_forecasts[n].corruption_types[t])) <= 3

\* ------------------------------------------------------------------------
\* Claims about the rules of the mapper (checked under MapperSpec)
\* ------------------------------------------------------------------------
\* the loop is about to convert processed_periods[i] at current_day_offset
AtPeriod == mpc = "loop" /\ i <= Len(processed_periods)
SameDayAliases == {REST_OF_TODAY, TODAY, THIS_AFTERNOON}
WeekdayNight(name) == IsWeekdayName(name) /\ Len(name) = 2
PlainWeekdayDay(name) == IsWeekdayName(name) /\ Len(name) = 1
NightPeriod(name) == name \in {TONIGHT, REST_OF_TONIGHT} \/ WeekdayNight(name)

\* C15: the labels read back from the rendered lines of a conversion are
\* the labels the mapper emitted, in the same order, and converting the
\* rendered lines again leaves them unchanged.
C15_RoundTrip ==
    mpc = "done" =>
        /\ parse_forecast_content(converted_periods)
               = [k \in Emitted |->
                     [day_num |-> converted_periods[k].label.offset,
                      period_type |-> Lower(converted_periods[k].label.kind)]]
        /\ convert_forecast_periods(OutputText(converted_periods), forecast_time)
               = [kind |-> "text", text |-> OutputText(converted_periods)]

\* C17: a period named REST OF TODAY, TODAY or THIS AFTERNOON, converted at
\* any position with the offset at k, is labelled D{k}_DAY and leaves the
\* offset at k for the next period.
C17_SameDayAliasRule ==
    [][(AtPeriod /\ processed_periods[i].name \in SameDayAliases) =>
           /\ Len(converted_periods') = i
           /\ converted_periods'[i].label = Label(current_day_offset, "DAY")
           /\ current_day_offset' = current_day_offset]_vars

C17_Witness ==
    /\ i = 3
    /\ processed_periods[2].name = THIS_AFTERNOON
    /\ converted_periods[2].label = Label(1, "DAY")
    /\ current_day_offset = 1
    /\ Len(processed_periods) = 3
    /\ processed_periods[3].name = REST_OF_TODAY

\* C18: a period named REST OF TONIGHT, TONIGHT or a weekday code followed
\* by NIGHT, converted at any position with the offset at k, is labelled
\* D{k}_NIGHT and leaves the offset at k + 1 for the next period.
C18_NightRule ==
    [][(AtPeriod /\ NightPeriod(processed_periods[i].name)) =>
           /\ Len(converted_periods') = i
           /\ converted_periods'[i].label = Label(current_day_offset, "NIGHT")
           /\ current_day_offset' = current_day_offset + 1]_vars

C18_Witness ==
    /\ i = 4
    /\ processed_periods[1].name = REST_OF_TONIGHT
    /\ processed_periods[3].name = <<"TUE", "NIGHT">>
    /\ converted_periods[1].label = Label(0, "NIGHT")
    /\ converted_periods[3].label = Label(1, "NIGHT")
    /\ current_day_offset = 2

\* C19: a plain weekday-code day period converted with the offset at k,
\* when a night period or a same-day alias follows it or when it is the
\* last period, leaves the offset at k.
C19_DayPeriodKeepsOffset ==
    [][(/\ AtPeriod
        /\ PlainWeekdayDay(processed_periods[i].name)
        /\ \/ i = Len(processed_periods)
           \/ NightPeriod(processed_periods[i + 1].name)
           \/ processed_periods[i + 1].name \in SameDayAliases) =>
           current_day_offset' = current_day_offset]_vars

\* C20: a plain weekday-code day period converted with the offset at k is
\* labelled D{k}_DAY, and when the next period is another plain
\* weekday-code day period the offset moves on by exactly 1, so that this
\* next period is labelled D{k+1}_DAY.
C20_SkippedNightRule ==
    [][(AtPeriod /\ PlainWeekdayDay(processed_periods[i].name)) =>
           /\ Len(converted_periods') = i
           /\ converted_periods'[i].label = Label(current_day_offset, "DAY")
           /\ (i < Len(processed_periods)
                   /\ PlainWeekdayDay(processed_periods[i + 1].name)) =>
                  current_day_offset' = current_day_offset + 1
           /\ (i > 1 /\ PlainWeekdayDay(processed_periods[i - 1].name)) =>
                  converted_periods'[i].label
                      = Label(converted_periods[i - 1].label.offset + 1, "DAY")]_vars

C20_Witness ==
    /\ mpc = "done"
    /\ NamesOf(processed_periods) = <<TONIGHT, <<"MON">>, <<"TUE">> >>
    /\ converted_periods[2].label = Label(1, "DAY")
    /\ converted_periods[3].label = Label(2, "DAY")

\* C21: the first period of a block is labelled with offset 0 and dated
\* with the issuance date, whatever the issuance hour and the first token;
\* the same periods issued on the same date at any other hour get the same
\* labels and dates.
C21_FirstPeriodAtOffsetZero ==
    /\ converted_periods # <<>> =>
           /\ converted_periods[1].label.offset = 0
           /\ converted_periods[1].date = IssueDate
    /\ mpc = "done" =>
           \A hour \in 0..23 :
               converted_lines(processed_periods,
                               [date |-> IssueDate, hour |-> hour])
                   = converted_periods

C21_Witness ==
    /\ mpc = "done"
    /\ forecast_time.hour = 17
    /\ processed_periods[1].name = <<"TUE", "NIGHT">>
    /\ converted_periods[1].label = Label(0, "NIGHT")
    /\ Len(converted_periods) = 3

\* the night periods among the first k periods of the block
NightsUpTo(k) == {j \in 1..k : NightPart(processed_periods[j].name)}

\* C22: the offset is never held back: once n night periods have been
\* converted the offset is at least n (more than 4 after five nights), and
\* every period is converted, with the label of its own kind, however
\* large the offset.
C22_OffsetNeverClamped ==
    mpc # "idle" =>
        /\ Len(converted_periods) = i - 1
        /\ current_day_offset >= Cardinality(NightsUpTo(i - 1))
        /\ Cardinality(NightsUpTo(i - 1)) >= 5 => current_day_offset > 4
        /\ \A k \in Emitted :
              /\ converted_periods[k].label.offset >= Cardinality(NightsUpTo(k - 1))
              /\ converted_periods[k].label.kind =
                     (IF NightPart(processed_periods[k].name) THEN "NIGHT" ELSE "DAY")
        /\ mpc = "done" => Len(converted_periods) = Len(processed_periods)

C22_Witness ==
    /\ mpc = "done"
    /\ Len(converted_periods) = 11
    /\ Cardinality(NightsUpTo(11)) = 5
    /\ converted_periods[11].label = Label(5, "DAY")
    /\ current_day_offset = 5

\* ------------------------------------------------------------------------
\* Claims about the parser and the detector (checked under BlockSpec)
\* ------------------------------------------------------------------------
\* the fixed vocabulary of period-header tokens
InVocabulary(name) ==
    \/ name \in {TODAY, TONIGHT, REST_OF_TODAY, REST_OF_TONIGHT, THIS_AFTERNOON}
    \/ IsWeekdayName(name)

\* the headers of a body that are well formed: a token of the vocabulary
\* and two or three dots
VocabularyHeaders(body) ==
    SelectSeq(body.sections, LAMBDA sec : InVocabulary(sec.name) /\ sec.dots \in {2, 3})

\* C23: the parser produces a period only for a header whose token is in
\* the fixed vocabulary; a header with any other token gives no period and
\* no label.
C23_OnlyVocabularyParsed ==
    \A k \in Outputs :
        converted_blocks[k].kind = "converted" =>
            LET periods == parse_periods(BodyAfterWarnings(SourceOf(k).body))
                content == converted_blocks[k].converted_content
            IN /\ \A n \in 1..Len(periods) : InVocabulary(periods[n].name)
               /\ content.kind = "lines" =>
                      Len(content.lines) = Len(VocabularyHeaders(SourceOf(k).body))

\* a header of the vocabulary with one dot or two dots after the name
HasShortDots(body) ==
    \E n \in 1..Len(body.sections) :
        InVocabulary(body.sections[n].name) /\ body.sections[n].dots \in {1, 2}

\* C24: a block with a period header that has one dot or two dots after
\* its name is flagged as corrupted by the detector, and is not converted.
C24_ShortDotsFlagged ==
    \A b \in 1..Len(forecast_blocks) :
        (forecast_blocks[b].ts # NoTimestamp /\ HasShortDots(forecast_blocks[b].body)) =>
            /\ Analysed => (b \in DOMAIN verdicts /\ verdicts[b])
            /\ b \notin convert_calls

\* the periods the detector's own pattern finds in a body
DetectorPeriods(body) ==
    FindPeriods(body.sections,
                [k \in 1..Len(body.sections) |-> IsDetectorHeader(body.sections[k])],
                <<>>)

SeqRange(seq) == {seq[k] : k \in 1..Len(seq)}

\* the categories at least one check finds in a body, each check on its own
Triggered(body) ==
    {c \in SeqRange(nws_patterns) \cup SeqRange(truncated_patterns)
            \cup SeqRange(anomalous_patterns) : MatchesOf(body, c) # <<>>}
        \cup (IF \E n \in 1..Len(DetectorPeriods(body)) :
                    TextLen(Strip(DetectorPeriods(body)[n].content)) > 1000
              THEN {"ABNORMALLY_LONG_PERIOD"} ELSE {})
        \cup (IF HasSecondTimestamp(body) THEN {"EMBEDDED_TIMESTAMPS"} ELSE {})
        \cup (IF SeqRange(body.marks) \cap SeqRange(non_weather_keywords) # {}
              THEN {"NON_WEATHER_CONTENT"} ELSE {})
        \cup (IF \E n \in 1..Len(DetectorPeriods(body)) :
                    TextLen(Strip(DetectorPeriods(body)[n].content)) < 10
              THEN {"EXTREMELY_SHORT_PERIOD"} ELSE {})

\* C25: the verdict is the OR of all checks, and every category a block
\* triggers is recorded in corruption_types, whatever matched before it.
C25_DetectionAdditive ==
    \A b \in DOMAIN verdicts :
        LET block == forecast_blocks[b] IN
        /\ verdicts[b] <=> Triggered(block.body) # {}
        /\ verdicts[b] =>
               /\ EntriesOf(block) # <<>>
               /\ \A n \in 1..Len(EntriesOf(block)) :
                     EntriesOf(block)[n].timestamp = block.ts
               /\ \E n \in 1..Len(EntriesOf(block)) :
                     SeqRange(EntriesOf(block)[n].corruption_types)
                         = Triggered(block.body)

C25_Witness ==
    /\ pc = "done"
    /\ forecast_blocks = <<Block(TsSunday, SeveralSignaturesBody)>>
    /\ Len(corrupted_forecasts) = 1
    /\ SeqRange(corrupted_forecasts[1].corruption_types) =
           {"NWS_PRODUCT_NAME", "NWS_ZONE_CODE", "EMBEDDED_TIMESTAMPS",
            "NON_WEATHER_CONTENT", "EXTREMELY_SHORT_PERIOD"}

\* C29: in every verdict of detect_corruption_patterns has_corruption is
\* true exactly when corruption_types is not empty, and corruption_details
\* is empty when has_corruption is false.
C29_VerdictConsistent ==
    \A b \in DOMAIN verdicts :
        LET info == detect_corruption_patterns(forecast_blocks[b].body) IN
        /\ verdicts[b] = info.has_corruption
        /\ info.has_corruption <=> info.corruption_types # <<>>
        /\ ~info.has_corruption => info.corruption_details = <<>>
        /\ info.has_corruption =>
               \E n \in 1..Len(corrupted_forecasts) :
                   /\ corrupted_forecasts[n].corruption_types = info.corruption_types
                   /\ corrupted_forecasts[n].corruption_details = info.corruption_details
                   /\ corrupted_forecasts[n].corruption_details # <<>>

C29_Witness ==
    /\ pc = "done"
    /\ verdicts = (1 :> TRUE)
    /\ Len(corrupted_forecasts) = 1
    /\ corrupted_forecasts[1].corruption_types = <<"EMBEDDED_TIMESTAMPS">>
    /\ Len(corrupted_forecasts[1].corruption_details) = 1

\* ------------------------------------------------------------------------
\* Claims about the labels of one block (checked under MapperSpec)
\* ------------------------------------------------------------------------
\* C26 as stated: the labels emitted for one block are pairwise distinct,
\* for every period sequence.
C26_LabelsDistinct ==
    \A j, k \in Emitted : j # k => converted_periods[j].label # converted_periods[k].label

\* wherever two day periods are adjacent, neither is a same-day alias
NoAliasBesideDay(names) ==
    \A j \in 1..(Len(names) - 1) :
        (~NightPart(names[j]) /\ ~NightPart(names[j + 1])) =>
            (names[j] \notin SameDayAliases /\ names[j + 1] \notin SameDayAliases)

\* C26 amended: the labels emitted for one block are pairwise distinct
\* when, wherever two day periods are adjacent, neither of them is TODAY,
\* REST OF TODAY or THIS AFTERNOON.
C26_LabelsDistinctWithoutAliasBesideDay ==
    NoAliasBesideDay(NamesOf(processed_periods)) =>
        \A j, k \in Emitted :
            j # k => converted_periods[j].label # converted_periods[k].label

C26_Witness ==
    /\ mpc = "done"
    /\ NamesOf(processed_periods) = << <<"MON">>, <<"TUE">>, <<"TUE", "NIGHT">> >>
    /\ [k \in Emitted |-> converted_periods[k].label]
           = <<Label(0, "DAY"), Label(1, "DAY"), Label(1, "NIGHT")>>

\* C27: at most one period of a block is labelled D{n}_NIGHT for each n,
\* and no D{n}_DAY follows the D{n}_NIGHT of the same n: every period after
\* a night has a larger offset.
C27_NothingAfterNightOnSameOffset ==
    \A j, k \in Emitted :
        (j < k /\ converted_periods[j].label.kind = "NIGHT") =>
            /\ converted_periods[k].label # converted_periods[j].label
            /\ converted_periods[k].label.offset > converted_periods[j].label.offset

C27_Witness ==
    /\ mpc = "done"
    /\ NamesOf(processed_periods) = <<TONIGHT, <<"MON", "NIGHT">>, THIS_AFTERNOON>>
    /\ [k \in Emitted |-> converted_periods[k].label]
           = <<Label(0, "NIGHT"), Label(1, "NIGHT"), Label(2, "DAY")>>

\* C28: the offsets of a block have no gap: the first is 0, each next one
\* is the one before or the one before plus 1, so the offsets are exactly
\* 0..max and the k-th is at most k-1.
C28_OffsetsGapFree ==
    LET offset(k) == converted_periods[k].label.offset IN
    /\ converted_periods # <<>> => offset(1) = 0
    /\ \A k \in Emitted : k > 1 => offset(k) \in {offset(k - 1), offset(k - 1) + 1}
    /\ \A k \in Emitted : offset(k) <= k - 1
    /\ \A k \in Emitted : \A n \in 0..offset(k) : \E j \in 1..k : offset(j) = n
    /\ mpc # "idle" => current_day_offset <= i - 1

C28_Witness ==
    /\ mpc = "done"
    /\ NamesOf(processed_periods) = <<TODAY, <<"MON">>, <<"TUE">> >>
    /\ [k \in Emitted |-> converted_periods[k].label.offset] = <<0, 0, 1>>

\* ------------------------------------------------------------------------
\* Claims about the counts of process_forecast_file (checked under Spec)
\* ------------------------------------------------------------------------
\* the non-empty input blocks that carry a timestamp
Stamped ==
    {b \in 1..Len(forecast_blocks) :
        ~BlockIsEmpty(forecast_blocks[b]) /\ forecast_blocks[b].ts # NoTimestamp}

\* the blocks the loop passed over because their timestamp is excluded
SkippedAsCorrupted == {b \in Stamped : forecast_blocks[b].ts \in corrupted_timestamps}

\* C30: the skipped count returned by process_forecast_file is the number
\* of input blocks skipped as corrupted, and the processed, error and
\* skipped counts add up to the number of non-empty blocks with a timestamp.
C30_CountsAccountForBlocks ==
    pc = "done" =>
        /\ result.skipped_count = Cardinality(SkippedAsCorrupted)
        /\ result.processed_count + result.error_count + result.skipped_count
               = Cardinality(Stamped)

====
